---- MODULE Spec2Model ----
(***************************************************************************)
(* paste-tool: one onPaste invocation as a state machine.                  *)
(*                                                                         *)
(* Strings are sequences of tokens (a tag, an entity or a run of text is   *)
(* one token), so the empty string is << >>.  A nullable value is a        *)
(* sequence of length 0 (null) or 1 (the value).  An action runs from one  *)
(* await to the next; what the platform answers at an await (the items of  *)
(* clipboard.read(), a fetch, a decode, an export) is chosen there.        *)
(*                                                                         *)
(* Spec is onPaste.  SpecFunctions applies one internal function (layout,  *)
(* text merge, snapshot plan, output type, inline image sources) to        *)
(* arguments of its domain.  SpecOverlap runs several rasterizeSvgMarkup   *)
(* invocations side by side on one console.                                *)
(***************************************************************************)
EXTENDS Integers, Sequences, FiniteSets, TLC

\* ----------------------------------------------------------------- bounds
MaxFiles == 2
MaxItems == 2
MaxImages == 3
MaxFragments == 3
MaxRuns == 3

\* -------------------------------------------------------------- constants
IMAGE_MIME_PREFIX == "image/"
HTML_MIME == "text/html"
RTF_MIME == "text/rtf"
PLAIN_MIME == "text/plain"
TEXT_MIME_PRIORITY == <<HTML_MIME, RTF_MIME, PLAIN_MIME>>
IMAGE_TYPE_PREFERENCE == <<"image/png", "image/webp", "image/jpeg">>

NoTextMessage == "No textual data found in clipboard."
NoImageMessage == "No image data found in clipboard."
NoBrowserMessage == "Paste handling requires a browser environment."
NoContextMessage == "Failed to access canvas 2D context."
NoCanvasMessage == "Canvas rendering requires DOM or OffscreenCanvas support."
ExportFailedMessage == "Failed to export merged image."
DecodeFailedMessage == "createImageBitmap/Image decode failed"
SerializeFailedMessage == "measuring or serializing the fragment threw"

\* ---------------------------------------------------------------- helpers
Null == << >>
Some(v) == <<v>>
IsNull(o) == o = Null
Value(o) == o[1]

\* JavaScript truthiness of a nullable string: null and '' are falsy.
Truthy(o) == o # Null /\ Value(o) # << >>

SeqsUpTo(S, n) == UNION {[1..k -> S] : k \in 0..n}

Range(s) == {s[i] : i \in 1..Len(s)}

RECURSIVE Flatten(_)
Flatten(ss) == IF ss = << >> THEN << >> ELSE Head(ss) \o Flatten(Tail(ss))

\* String.prototype.startsWith(IMAGE_MIME_PREFIX) over the media types used.
StartsWithImagePrefix(type) ==
    type \in {"image/png", "image/webp", "image/jpeg", "image/gif", "image/svg+xml"}

\* ------------------------------------------------------ markup universe
\* The <img> tags of the markup universe: the src attribute the DOM reports
\* (img[src] / getAttribute) and the one INLINE_IMG_SRC_PATTERN captures.
ImgTags ==
    {"<img src='data:ok'>", "<img src='data:bad'>", "<img src='https://h/a.png'>",
     "<img src=https://h/b.png>", "<img src='rel.png'>", "<img>"}

DomSrc(tag) ==
    CASE tag = "<img src='data:ok'>" -> "data:ok"
      [] tag = "<img src='data:bad'>" -> "data:bad"
      [] tag = "<img src='https://h/a.png'>" -> "https://h/a.png"
      [] tag = "<img src=https://h/b.png>" -> "https://h/b.png"
      [] tag = "<img src='rel.png'>" -> "rel.png"
      [] OTHER -> ""

\* A comment that holds an image tag: no element for the DOM, a match for
\* the pattern.
hCommentedImg == "<!--<img src='https://h/a.png'>-->"

\* The pattern needs a quoted attribute value, and reads the raw markup.
RegexSrc(tag) ==
    IF tag = "<img src=https://h/b.png>" THEN ""
    ELSE IF tag = hCommentedImg THEN "https://h/a.png"
    ELSE DomSrc(tag)

hText == <<"<p>", "hi", "</p>">>
hInline == <<"<p>", "<img src='data:bad'>", "<img src='https://h/a.png'>", "</p>">>

rtfA == <<"{rtf1 A}">>
plainA == <<"a">>
plainB == <<"b", "LF">>

\* ------------------------------------------------------------------ blobs
\* A Blob / File: an object identity, its media type, byte length and
\* modification stamp (0 when it is no File).
MkBlob(id, type, size) == [id |-> id, type |-> type, size |-> size, lastModified |-> 0]

fileA == [id |-> "fileA", type |-> "image/png", size |-> 10, lastModified |-> 1]
fileB == [id |-> "fileB", type |-> "image/jpeg", size |-> 20, lastModified |-> 2]
fileT == [id |-> "fileT", type |-> "text/plain", size |-> 5, lastModified |-> 3]

FileSet == {fileA, fileB, fileT}

\* ------------------------------------------------------------ paste event
\* DataTransfer of a paste event: the string of each text format (null when
\* the format is not among its types), its item list (null where the
\* platform has none) and its file list.
StringItem == [kind |-> "string", file |-> Null]
FileItem(f) == [kind |-> "file", file |-> Some(f)]

IsPresent(o) == o # Null

\* One string item per text format the event has, then one item per file.
ItemsOf(texts, fs) ==
    [i \in 1..Len(SelectSeq(texts, IsPresent)) |-> StringItem]
    \o [i \in 1..Len(fs) |-> FileItem(fs[i])]

\* The text formats a paste event carries together: html, rtf, plain.
TextKinds ==
    {<<Null, Null, Null>>, <<Null, Null, Some(plainA)>>, <<Null, Some(rtfA), Some(plainA)>>,
     <<Some(<< >>), Null, Null>>, <<Some(hText), Null, Some(plainA)>>,
     <<Some(hInline), Null, Null>>}

DataTransfers ==
    {[html |-> t[1], rtf |-> t[2], plain |-> t[3], items |-> "items", files |-> fs] :
        t \in TextKinds, fs \in SeqsUpTo(FileSet, MaxFiles)}
    \cup {[html |-> Null, rtf |-> Null, plain |-> Null, items |-> "files", files |-> fs] :
        fs \in SeqsUpTo(FileSet, MaxFiles)}

DataItems(data) ==
    IF data.items = "items"
    THEN Some(ItemsOf(<<data.html, data.rtf, data.plain>>, data.files))
    ELSE Null

Events == {Null} \cup {Some(d) : d \in DataTransfers}

\* ------------------------------------------------ collectBlobsFromDataTransfer
\* addFile over the entries in order: the blobs kept and the keys seen.
\* addFile without the set of keys seen: every image file is kept.
AddFilesKeepingAll(files, blobs, seen) ==
    LET IsImageFile(file) == ~IsNull(file) /\ StartsWithImagePrefix(Value(file).type)
        kept == SelectSeq(files, IsImageFile)
    IN blobs \o [i \in 1..Len(kept) |-> Value(kept[i])]

RECURSIVE AddFiles(_, _, _)
AddFiles(files, blobs, seen) ==
    IF files = << >> THEN blobs
    ELSE LET file == Head(files) IN
         IF IsNull(file) \/ ~StartsWithImagePrefix(Value(file).type)
         THEN AddFiles(Tail(files), blobs, seen)
         ELSE LET f == Value(file)
                  key == <<f.type, f.size, f.lastModified>>
              IN IF key \in seen
                 THEN AddFiles(Tail(files), blobs, seen)
                 ELSE AddFiles(Tail(files), Append(blobs, f), seen \cup {key})

IsFileKind(item) == item.kind = "file"

collectBlobsFromDataTransfer(data) ==
    LET items == DataItems(data) IN
    IF items # Null /\ Len(Value(items)) > 0
    THEN LET fileItems == SelectSeq(Value(items), IsFileKind)
         IN AddFiles([i \in 1..Len(fileItems) |-> fileItems[i].file], << >>, {})
    ELSE AddFiles([i \in 1..Len(data.files) |-> Some(data.files[i])], << >>, {})

\* ------------------------------------------------- inline images of markup
IsImgTag(tok) == tok \in ImgTags

HasDomSrc(tok) == IsImgTag(tok) /\ DomSrc(tok) # ""
HasRegexSrc(tok) == (IsImgTag(tok) \/ tok = hCommentedImg) /\ RegexSrc(tok) # ""

DomSources(html) ==
    LET tags == SelectSeq(html, HasDomSrc) IN [i \in 1..Len(tags) |-> DomSrc(tags[i])]

RegexSources(html) ==
    LET tags == SelectSeq(html, HasRegexSrc) IN [i \in 1..Len(tags) |-> RegexSrc(tags[i])]

\* doc.querySelectorAll('img[src]') when a document was parsed, and the
\* pattern scan when that gave nothing.
collectImageSourcesFromHtml(html, dom) ==
    LET sources == IF dom THEN DomSources(html) ELSE << >>
    IN IF Len(sources) = 0 THEN RegexSources(html) ELSE sources

\* new Set(sources): first occurrences, in order.
RECURSIVE Unique(_)
Unique(s) ==
    IF s = << >> THEN << >>
    ELSE LET init == Unique(SubSeq(s, 1, Len(s) - 1))
             last == s[Len(s)]
         IN IF last \in Range(init) THEN init ELSE Append(init, last)

IsDataUrl(src) == src \in {"data:ok", "data:bad"}
\* atob accepts the body of data:ok and throws on that of data:bad.
DataUrlParses(src) == src = "data:ok"
IsFetchable(src) == src \in {"https://h/a.png", "https://h/b.png"}

\* What one fetch is made to do here: throw, answer not ok, answer an image.
FetchOutcomes == {"throw", "notok", "image"}

FetchableSources(html) == {src \in Range(DomSources(html)) : IsFetchable(src)}

\* resolveImageSourceToBlob: the blob (or null) and the warnings logged.
resolveImageSourceToBlob(src, outcome) ==
    IF IsDataUrl(src)
    THEN IF DataUrlParses(src)
         THEN [blob |-> Some(MkBlob(src, "image/png", 1)), warns |-> << >>, fetched |-> << >>]
         ELSE [blob |-> Null,
               warns |-> <<"Failed to parse data URI image from HTML fragment.">>,
               fetched |-> << >>]
    ELSE IF IsFetchable(src) /\ outcome # "nofetch"
    THEN CASE outcome = "throw" ->
                [blob |-> Null, warns |-> <<"Failed to fetch image source">>, fetched |-> <<src>>]
           [] outcome = "image" ->
                [blob |-> Some(MkBlob(src, "image/png", 7)), warns |-> << >>, fetched |-> <<src>>]
           [] outcome = "untyped" ->
                [blob |-> Some(MkBlob(src, "", 7)), warns |-> << >>, fetched |-> <<src>>]
           [] OTHER ->
                [blob |-> Null, warns |-> << >>, fetched |-> <<src>>]
    ELSE [blob |-> Null, warns |-> << >>, fetched |-> << >>]

RECURSIVE ResolveAll(_, _)
ResolveAll(sources, fo) ==
    IF sources = << >> THEN [blobs |-> << >>, warns |-> << >>, fetched |-> << >>]
    ELSE LET src == Head(sources)
             one == resolveImageSourceToBlob(src, IF IsFetchable(src) THEN fo[src] ELSE "nofetch")
             rest == ResolveAll(Tail(sources), fo)
         IN [blobs |-> one.blob \o rest.blobs,
             warns |-> one.warns \o rest.warns,
             fetched |-> one.fetched \o rest.fetched]

extractInlineImagesFromHtml(html, dom, fo) ==
    ResolveAll(Unique(collectImageSourcesFromHtml(html, dom)), fo)

\* hydrateInlineImages on a payload {blobs, html}: the payload afterwards,
\* the warnings logged and the sources fetched.
hydrateInlineImages(p, dom, fo) ==
    IF Len(p.blobs) > 0 \/ ~Truthy(p.html)
    THEN [payload |-> p, warns |-> << >>, fetched |-> << >>]
    ELSE LET inline == extractInlineImagesFromHtml(Value(p.html), dom, fo)
         IN [payload |-> [blobs |-> p.blobs \o inline.blobs, html |-> p.html],
             warns |-> inline.warns, fetched |-> inline.fetched]

FetchChoices(p) ==
    IF Len(p.blobs) > 0 \/ ~Truthy(p.html)
    THEN [{} -> FetchOutcomes]
    ELSE [FetchableSources(Value(p.html)) -> FetchOutcomes]

EmptyPayload == [blobs |-> << >>, html |-> Null]

\* ---------------------------------------------------------- ClipboardItems
\* A ClipboardItem of navigator.clipboard.read(): its types in order, the
\* types whose getType() rejects, and the text of its text representations.
MkItem(id, types, fails, html, plain) ==
    [id |-> id, types |-> types, fails |-> fails, html |-> html, plain |-> plain]

itPng == MkItem("itPng", <<"image/png">>, {}, << >>, << >>)
itGifJpegFail ==
    MkItem("itGifJpegFail", <<"image/gif", "image/jpeg">>, {"image/jpeg"}, << >>, << >>)
itPngHtmlFail ==
    MkItem("itPngHtmlFail", <<"text/html", "image/png">>, {"text/html"}, hText, << >>)
itInline == MkItem("itInline", <<"text/html", "text/plain">>, {}, hInline, plainA)

ItemSet == {itPng, itGifJpegFail, itPngHtmlFail, itInline}

\* What clipboard.read() can do: reject, or resolve with a list of items.
ReadOutcomes == {[ok |-> FALSE, items |-> << >>]}
                \cup {[ok |-> TRUE, items |-> is] : is \in SeqsUpTo(ItemSet, MaxItems)}

Includes(types, mime) == mime \in Range(types)

\* The first element of a list, as a nullable.
FirstOf(candidates) == IF candidates = << >> THEN Null ELSE Some(Head(candidates))

selectPreferredImageType(types) ==
    LET InTypes(candidate) == Includes(types, candidate)
        preferred == FirstOf(SelectSeq(IMAGE_TYPE_PREFERENCE, InTypes))
    IN IF preferred # Null THEN preferred
       ELSE FirstOf(SelectSeq(types, StartsWithImagePrefix))

\* collectBlobsFromClipboardItem: whether its promise fulfilled, the payload,
\* the warnings logged, the sources fetched and the blobs getType delivered.
collectBlobsFromClipboardItem(item, dom, fo) ==
    LET preferredImageType == selectPreferredImageType(item.types)
        imageOk == preferredImageType # Null /\ Value(preferredImageType) \notin item.fails
        blobs == IF imageOk
                 THEN <<MkBlob(item.id, Value(preferredImageType), 9)>>
                 ELSE << >>
        warns1 == IF preferredImageType # Null /\ ~imageOk
                  THEN <<"ClipboardItem.getType failed">>
                  ELSE << >>
        hasHtml == Includes(item.types, HTML_MIME)
        html == IF hasHtml THEN Some(item.html) ELSE Null
        p == [blobs |-> blobs, html |-> html]
        h == hydrateInlineImages(p, dom,
                 [src \in FetchableSources(item.html) |-> fo[src]])
    IN IF hasHtml /\ HTML_MIME \in item.fails
       THEN [ok |-> FALSE, payload |-> EmptyPayload, warns |-> warns1,
             fetched |-> << >>, got |-> blobs]
       ELSE [ok |-> TRUE, payload |-> h.payload, warns |-> warns1 \o h.warns,
             fetched |-> h.fetched, got |-> h.payload.blobs]

\* Promise.all(items.map(item => collectBlobsFromClipboardItem(item))).
RECURSIVE ItemPayloads(_, _, _)
ItemPayloads(items, dom, fo) ==
    IF items = << >> THEN << >>
    ELSE <<collectBlobsFromClipboardItem(Head(items), dom, fo)>>
         \o ItemPayloads(Tail(items), dom, fo)

\* The first truthy html among the item payloads, in order.
RECURSIVE FirstHtml(_)
FirstHtml(payloads) ==
    IF payloads = << >> THEN Null
    ELSE IF Truthy(Head(payloads).payload.html) THEN Head(payloads).payload.html
    ELSE FirstHtml(Tail(payloads))

\* Every source an item list can ask fetch for.
ItemSources(items) == UNION {FetchableSources(items[i].html) : i \in 1..Len(items)}

\* A variant whose catch block logs nothing.
ReadFailedSilently ==
    [payload |-> EmptyPayload, warns |-> << >>, fetched |-> << >>, got |-> << >>]

\* The catch block around clipboard.read(): the rejection is logged, and
\* the stage goes on with what it had collected, which is nothing.
ReadFailed ==
    [payload |-> EmptyPayload, warns |-> <<"navigator.clipboard.read failed">>,
     fetched |-> << >>, got |-> << >>]

\* collectImagesFromNavigator from the settled clipboard.read() on: the
\* payload it returns, the warnings, the fetches, the blobs obtained on the way.
collectFromItems(outcome, dom, fo, fo2) ==
    IF ~outcome.ok
    THEN ReadFailed
    ELSE LET items == outcome.items
             payloads == ItemPayloads(items, dom, fo)
             allOk == \A i \in 1..Len(items) : payloads[i].ok
             warns == Flatten([i \in 1..Len(items) |-> payloads[i].warns])
             fetches == Flatten([i \in 1..Len(items) |-> payloads[i].fetched])
             got == Flatten([i \in 1..Len(items) |-> payloads[i].got])
         IN IF ~allOk
            THEN [payload |-> EmptyPayload,
                  warns |-> Append(warns, "navigator.clipboard.read failed"),
                  fetched |-> fetches, got |-> got]
            ELSE LET merged == [blobs |-> Flatten([i \in 1..Len(items) |->
                                                      payloads[i].payload.blobs]),
                                html |-> FirstHtml(payloads)]
                     h == hydrateInlineImages(merged, dom, fo2)
                 IN [payload |-> h.payload, warns |-> warns \o h.warns,
                     fetched |-> fetches \o h.fetched,
                     got |-> got \o (IF Len(merged.blobs) = 0 THEN h.payload.blobs
                                     ELSE << >>)]

\* ------------------------------------------------------------- text merge
RECURSIVE Join(_, _)
\* Array.prototype.join with a one-token separator.
Join(fragments, separator) ==
    IF fragments = << >> THEN << >>
    ELSE IF Len(fragments) = 1 THEN fragments[1]
    ELSE fragments[1] \o <<separator>> \o Join(Tail(fragments), separator)

\* LINE_BREAK_TEST_PATTERN /[\r\n]/
HasLineBreak(fragment) == \E i \in 1..Len(fragment) : fragment[i] \in {"CR", "LF"}

RECURSIVE NormalizeLineBreaks(_)
\* replace(LINE_BREAK_NORMALIZE_PATTERN /\r?\n/g, '\n')
NormalizeLineBreaks(text) ==
    IF text = << >> THEN << >>
    ELSE IF Len(text) >= 2 /\ text[1] = "CR" /\ text[2] = "LF"
    THEN <<"LF">> \o NormalizeLineBreaks(SubSeq(text, 3, Len(text)))
    ELSE <<text[1]>> \o NormalizeLineBreaks(Tail(text))

\* The separator that never is a newline.
plainSeparatorAlwaysTab(fragments) == "TAB"

\* combinePlainTextFragments' separator.
plainSeparator(fragments) ==
    LET hasLineBreak == \E i \in 1..Len(fragments) : HasLineBreak(fragments[i])
    IN IF hasLineBreak THEN "LF" ELSE "TAB"

\* The fragments put one after the other, with no separator.
combinePlainTextFragmentsUnseparated(fragments) == Flatten(fragments)

combinePlainTextFragments(fragments) ==
    IF Len(fragments) = 0 THEN << >>
    ELSE NormalizeLineBreaks(Join(fragments, plainSeparator(fragments)))

combineRtfFragments(fragments) ==
    IF Len(fragments) = 0 THEN << >> ELSE fragments[1]

\* The parser's view of a fragment.  Table-structure tags outside a table
\* are dropped by the HTML parser, so only a fragment with a table has rows.
TableTags == {"<table>", "</table>", "<tr>", "</tr>", "<td>", "</td>"}
IsBodyToken(tok) == tok \notin TableTags

RECURSIVE IndexOf(_, _, _)
\* The least index >= from of tok in s, or 0.
IndexOf(s, tok, from) ==
    IF from > Len(s) THEN 0
    ELSE IF s[from] = tok THEN from
    ELSE IndexOf(s, tok, from + 1)

RECURSIVE ElementsFrom(_, _, _, _)
\* The elements <open> ... <close> of s from index from on, each with its tags.
ElementsFrom(s, open, close, from) ==
    LET start == IndexOf(s, open, from)
        stop == IF start = 0 THEN 0 ELSE IndexOf(s, close, start + 1)
    IN IF start = 0 \/ stop = 0 THEN << >>
       ELSE <<SubSeq(s, start, stop)>> \o ElementsFrom(s, open, close, stop + 1)

HasTable(fragment) == IndexOf(fragment, "<table>", 1) # 0

\* table.rows of the first table of the fragment.
FirstTableRows(fragment) ==
    LET start == IndexOf(fragment, "<table>", 1)
        stop == IndexOf(fragment, "</table>", start)
        inner == SubSeq(fragment, start, IF stop = 0 THEN Len(fragment) ELSE stop)
    IN ElementsFrom(inner, "<tr>", "</tr>", 1)

\* The rows one fragment adds to the composite table.
FragmentRows(fragment) ==
    IF HasTable(fragment) THEN FirstTableRows(fragment)
    ELSE LET nodes == SelectSeq(fragment, IsBodyToken)
         IN IF Len(nodes) = 0
            THEN << <<"<tr>", "<td>", "&nbsp;", "</td>", "</tr>">> >>
            ELSE << <<"<tr>", "<td>">> \o nodes \o <<"</td>", "</tr>">> >>

RECURSIVE AllFragmentRows(_)
AllFragmentRows(fragments) ==
    IF fragments = << >> THEN << >>
    ELSE FragmentRows(Head(fragments)) \o AllFragmentRows(Tail(fragments))

combineHtmlFragments(fragments, dom) ==
    IF Len(fragments) <= 1
    THEN (IF Len(fragments) = 0 THEN << >> ELSE fragments[1])
    ELSE IF ~dom THEN Join(fragments, "LF")
    ELSE <<"<table>">> \o Flatten(AllFragmentRows(fragments)) \o <<"</table>">>

\* A merge that sees the text/html bucket only.
mergeOfHtmlOnly(buckets, dom) ==
    IF Len(buckets.html) > 0
    THEN Some([html |-> Some(IF Len(buckets.html) = 1 THEN buckets.html[1]
                             ELSE combineHtmlFragments(buckets.html, dom)),
               rtf |-> Null, plain |-> Null])
    ELSE Null

\* TextCollector.merge over the buckets: the payload, or null.
merge(buckets, dom) ==
    LET payload ==
            [html |-> IF Len(buckets.html) > 0
                      THEN Some(IF Len(buckets.html) = 1 THEN buckets.html[1]
                                ELSE combineHtmlFragments(buckets.html, dom))
                      ELSE Null,
             rtf |-> IF Len(buckets.rtf) > 0
                     THEN Some(IF Len(buckets.rtf) = 1 THEN buckets.rtf[1]
                               ELSE combineRtfFragments(buckets.rtf))
                     ELSE Null,
             plain |-> IF Len(buckets.plain) > 0
                       THEN Some(IF Len(buckets.plain) = 1 THEN buckets.plain[1]
                                 ELSE combinePlainTextFragments(buckets.plain))
                       ELSE Null]
    IN IF payload.html # Null \/ payload.rtf # Null \/ payload.plain # Null
       THEN Some(payload)
       ELSE Null

\* TextCollector.add
add(buckets, mime, fragment) ==
    CASE mime = HTML_MIME -> [buckets EXCEPT !.html = Append(@, fragment)]
      [] mime = RTF_MIME -> [buckets EXCEPT !.rtf = Append(@, fragment)]
      [] OTHER -> [buckets EXCEPT !.plain = Append(@, fragment)]

\* extractText's loop over the event's formats: a format is added when the
\* event has it and its string is not empty.
AddEventText(buckets, data) ==
    LET b1 == IF Truthy(data.html) THEN add(buckets, HTML_MIME, Value(data.html)) ELSE buckets
        b2 == IF Truthy(data.rtf) THEN add(b1, RTF_MIME, Value(data.rtf)) ELSE b1
    IN IF Truthy(data.plain) THEN add(b2, PLAIN_MIME, Value(data.plain)) ELSE b2

\* One item's batch in extractText: whether every getType fulfilled, and the
\* buckets with its fragments added in priority order (empty ones too).
AddItemText(buckets, item) ==
    LET b1 == IF Includes(item.types, HTML_MIME) THEN add(buckets, HTML_MIME, item.html)
              ELSE buckets
    IN IF Includes(item.types, PLAIN_MIME) THEN add(b1, PLAIN_MIME, item.plain) ELSE b1

ItemTextOk(item) ==
    \A mime \in {HTML_MIME, RTF_MIME, PLAIN_MIME} :
        Includes(item.types, mime) => mime \notin item.fails

RECURSIVE AddItemsText(_, _)
AddItemsText(buckets, items) ==
    IF items = << >> THEN buckets
    ELSE AddItemsText(AddItemText(buckets, Head(items)), Tail(items))

\* What clipboard.readText() can do: reject, or resolve with a string.
ReadTextOutcomes ==
    {[ok |-> FALSE, text |-> << >>], [ok |-> TRUE, text |-> << >>],
     [ok |-> TRUE, text |-> plainB]}

\* ----------------------------------------------------------------- layout
CountImgs(tokens) == Len(SelectSeq(tokens, IsImgTag))

RECURSIVE sumCounts(_)
sumCounts(values) == IF values = << >> THEN 0 ELSE Head(values) + sumCounts(Tail(values))

IsPositive(count) == count > 0

\* The image counts of a list of elements, zero counts left out; null if none.
RowsOf(elements) ==
    LET rows == SelectSeq([i \in 1..Len(elements) |-> CountImgs(elements[i])], IsPositive)
    IN IF Len(rows) > 0 THEN Some(rows) ELSE Null

\* doc.querySelectorAll('tr'): rows exist only inside a table.
extractRowsFromTables(html) ==
    RowsOf(IF HasTable(html) THEN ElementsFrom(html, "<tr>", "</tr>", 1) ELSE << >>)

BlockSelectors ==
    << <<"<p>", "</p>">>, <<"<div>", "</div>">>, <<"<section>", "</section>">>,
       <<"<article>", "</article>">>, <<"<figure>", "</figure>">> >>

RECURSIVE BlockRowsFrom(_, _)
BlockRowsFrom(html, selectorIndex) ==
    IF selectorIndex > Len(BlockSelectors) THEN Null
    ELSE LET sel == BlockSelectors[selectorIndex]
             rows == RowsOf(ElementsFrom(html, sel[1], sel[2], 1))
         IN IF rows # Null THEN rows ELSE BlockRowsFrom(html, selectorIndex + 1)

extractRowsFromBlockElements(html) == BlockRowsFrom(html, 1)

RECURSIVE SplitOn(_, _)
\* String.prototype.split on a one-token separator.
SplitOn(s, sep) ==
    LET at == IndexOf(s, sep, 1)
    IN IF at = 0 THEN <<s>>
       ELSE <<SubSeq(s, 1, at - 1)>> \o SplitOn(SubSeq(s, at + 1, Len(s)), sep)

extractRowsFromBreaks(html) == RowsOf(SplitOn(html, "<br>"))

\* deriveRowStructure without the test of the sum: the first candidate.
deriveRowStructureUnchecked(count, html, dom) ==
    IF ~Truthy(html) THEN Null
    ELSE IF CountImgs(Value(html)) = 0 THEN Null
    ELSE LET h == Value(html)
             tableRows == IF dom THEN extractRowsFromTables(h) ELSE Null
             blockRows == IF dom THEN extractRowsFromBlockElements(h) ELSE Null
         IN IF tableRows # Null THEN tableRows
            ELSE IF blockRows # Null THEN blockRows
            ELSE extractRowsFromBreaks(h)

\* deriveRowStructure with the line-break segments tried first.
deriveRowStructureBreaksFirst(count, html, dom) ==
    IF ~Truthy(html) THEN Null
    ELSE IF CountImgs(Value(html)) = 0 THEN Null
    ELSE LET h == Value(html)
             tableRows == IF dom THEN extractRowsFromTables(h) ELSE Null
             blockRows == IF dom THEN extractRowsFromBlockElements(h) ELSE Null
             breakRows == extractRowsFromBreaks(h)
         IN IF breakRows # Null /\ sumCounts(Value(breakRows)) = count THEN breakRows
            ELSE IF tableRows # Null /\ sumCounts(Value(tableRows)) = count THEN tableRows
            ELSE IF blockRows # Null /\ sumCounts(Value(blockRows)) = count THEN blockRows
            ELSE Null

deriveRowStructure(count, html, dom) ==
    IF ~Truthy(html) THEN Null
    ELSE IF CountImgs(Value(html)) = 0 THEN Null
    ELSE LET h == Value(html)
             tableRows == IF dom THEN extractRowsFromTables(h) ELSE Null
             blockRows == IF dom THEN extractRowsFromBlockElements(h) ELSE Null
             breakRows == extractRowsFromBreaks(h)
         IN IF tableRows # Null /\ sumCounts(Value(tableRows)) = count THEN tableRows
            ELSE IF blockRows # Null /\ sumCounts(Value(blockRows)) = count THEN blockRows
            ELSE IF breakRows # Null /\ sumCounts(Value(breakRows)) = count THEN breakRows
            ELSE Null

Max(a, b) == IF a > b THEN a ELSE b
Min(a, b) == IF a < b THEN a ELSE b

RECURSIVE SumWidths(_, _, _)
\* The widths of bitmaps[from..to] added up.
SumWidths(bitmaps, from, to) ==
    IF from > to THEN 0 ELSE bitmaps[from].width + SumWidths(bitmaps, from + 1, to)

\* A row height that ignores the images of the row.
MaxHeightOfNone(bitmaps, from, to) == 0

RECURSIVE MaxHeight(_, _, _)
MaxHeight(bitmaps, from, to) ==
    IF from > to THEN 0 ELSE Max(bitmaps[from].height, MaxHeight(bitmaps, from + 1, to))

RECURSIVE LayoutRows(_, _, _)
\* buildLayoutFromRows' loop over counts; st.index images are placed so far.
LayoutRows(bitmaps, counts, st) ==
    IF counts = << >> \/ Len(bitmaps) - st.index <= 0 THEN st
    ELSE LET count == Min(Head(counts), Len(bitmaps) - st.index)
             first == st.index + 1
             last == st.index + count
             row == [k \in 1..count |->
                        [x |-> SumWidths(bitmaps, first, first + k - 2), y |-> st.yOffset]]
         IN LayoutRows(bitmaps, Tail(counts),
                [positions |-> st.positions \o row,
                 maxWidth |-> Max(st.maxWidth, SumWidths(bitmaps, first, last)),
                 yOffset |-> st.yOffset + MaxHeight(bitmaps, first, last),
                 index |-> last])

RECURSIVE LayoutExtras(_, _)
\* buildLayoutFromRows' loop over the images the rows left over.
LayoutExtras(bitmaps, st) ==
    IF st.index >= Len(bitmaps) THEN st
    ELSE LET bitmap == bitmaps[st.index + 1]
         IN LayoutExtras(bitmaps,
                [positions |-> Append(st.positions, [x |-> 0, y |-> st.yOffset]),
                 maxWidth |-> Max(st.maxWidth, bitmap.width),
                 yOffset |-> st.yOffset + bitmap.height,
                 index |-> st.index + 1])

\* buildLayoutFromRows with every image in the first row, whatever the counts.
buildLayoutInOneRow(bitmaps, rowCounts) ==
    LET st == LayoutRows(bitmaps, <<Len(bitmaps)>>,
                  [positions |-> << >>, maxWidth |-> 0, yOffset |-> 0, index |-> 0])
    IN [width |-> Max(1, st.maxWidth), height |-> Max(1, st.yOffset),
        positions |-> st.positions]

\* buildLayoutFromRows placing the images the row counts cover, and no others.
buildLayoutOfCountedOnly(bitmaps, rowCounts) ==
    LET st == LayoutRows(bitmaps, SelectSeq(rowCounts, IsPositive),
                  [positions |-> << >>, maxWidth |-> 0, yOffset |-> 0, index |-> 0])
    IN [width |-> Max(1, st.maxWidth), height |-> Max(1, st.yOffset),
        positions |-> st.positions]

buildLayoutFromRows(bitmaps, rowCounts) ==
    LET filtered == SelectSeq(rowCounts, IsPositive)
        totalFromRows == sumCounts(filtered)
        counts == IF totalFromRows < Len(bitmaps)
                  THEN Append(filtered, Len(bitmaps) - totalFromRows)
                  ELSE filtered
        st == LayoutExtras(bitmaps,
                  LayoutRows(bitmaps, counts,
                      [positions |-> << >>, maxWidth |-> 0, yOffset |-> 0, index |-> 0]))
    IN [width |-> Max(1, st.maxWidth), height |-> Max(1, st.yOffset),
        positions |-> st.positions]

\* rows ?? [bitmaps.length]: what inferImageLayout hands to the builder.
rowsOrSingleRow(count, html, dom) ==
    LET rows == deriveRowStructure(count, html, dom)
    IN IF rows # Null THEN Value(rows) ELSE <<count>>

inferImageLayout(bitmaps, html, dom) ==
    buildLayoutFromRows(bitmaps, rowsOrSingleRow(Len(bitmaps), html, dom))

\* The type of the first blob, whatever it is.
selectOutputMimeTypeOfFirst(blobs) == blobs[1].type

selectOutputMimeType(blobs) ==
    LET IsPreferred(blob) == blob.type \in {"image/png", "image/webp"}
        IsImage(blob) == StartsWithImagePrefix(blob.type)
        preferred == FirstOf(SelectSeq(blobs, IsPreferred))
        fallback == FirstOf(SelectSeq(blobs, IsImage))
    IN IF preferred # Null THEN Value(preferred).type
       ELSE IF fallback # Null THEN Value(fallback).type
       ELSE "image/png"

\* The size the decoder reports for a blob of the universe.
DecodedSize(blob) == [width |-> blob.size, height |-> blob.lastModified + 1]

\* The surface cleared and left transparent: no white fill.
FillOpsClearOnly(width, height) ==
    << <<"createDrawingCanvas", width, height>>, <<"clearRect", width, height>> >>

\* The calls on a surface's context: the fill, then the draws.
FillOps(width, height) ==
    << <<"createDrawingCanvas", width, height>>, <<"clearRect", width, height>>,
       <<"fillRect", width, height>> >>
DrawOps(positions) ==
    [i \in 1..Len(positions) |-> <<"drawImage", i, positions[i].x, positions[i].y>>]

\* --------------------------------------------------------------- snapshot
HTML_SNAPSHOT_MAX_DIMENSION == 4096
HTML_SNAPSHOT_DEFAULT_WIDTH == 512
HTML_SNAPSHOT_DEFAULT_HEIGHT == 512

\* Measured lengths are in half pixels: Math.ceil of v half pixels.
Ceil(v) == (v + 1) \div 2

\* clampDimension without its two limits.
clampDimensionUnbounded(value) == Ceil(value)

clampDimension(value) ==
    LET rounded == Ceil(value)
    IN IF rounded <= 0 THEN 1
       ELSE IF rounded > HTML_SNAPSHOT_MAX_DIMENSION THEN HTML_SNAPSHOT_MAX_DIMENSION
       ELSE rounded

\* The boxes getBoundingClientRect can report, in half pixels.
Rects == {<<0, 0>>, <<9000, 5>>}

wrapInlineHtmlForSvg(html) == <<"<div xmlns>">> \o html \o <<"</div>">>

\* prepareHtmlSnapshot when nothing throws: doc tells whether document.body
\* exists; the plan, or null.
prepareHtmlSnapshot(html, mimeType, doc, rect) ==
    IF doc = "none"
    THEN IF mimeType = "image/svg+xml"
         THEN Some([width |-> HTML_SNAPSHOT_DEFAULT_WIDTH,
                    height |-> HTML_SNAPSHOT_DEFAULT_HEIGHT,
                    markup |-> wrapInlineHtmlForSvg(html)])
         ELSE Null
    ELSE LET measured == rect[1] > 0 /\ rect[2] > 0
         IN Some([width |-> IF measured THEN clampDimension(rect[1])
                            ELSE HTML_SNAPSHOT_DEFAULT_WIDTH,
                  height |-> IF measured THEN clampDimension(rect[2])
                             ELSE HTML_SNAPSHOT_DEFAULT_HEIGHT,
                  markup |-> wrapInlineHtmlForSvg(html)])

\* buildForeignObjectSvg: the size attributes of the <svg> element.
buildForeignObjectSvg(p) ==
    [width |-> Max(1, p.width), height |-> Max(1, p.height), markup |-> p.markup]

\* rasterizeSvgMarkup: the size it creates the drawing surface with.
surfaceSize(width, height) == [width |-> Max(1, width), height |-> Max(1, height)]

SvgBlob == MkBlob("svg", "image/svg+xml", 3)

\* ------------------------------------------------------------------ state
VARIABLES
    pc,            \* where the invocation stands
    env,           \* the host: navigator.clipboard's functions, DOMParser, window
    args,          \* onPaste's arguments: isImage, event, options
    payload,       \* the ClipboardImagePayload onPaste holds
    eventPayload,  \* what collectImagesFromEvent returned (null before)
    collector,     \* the TextCollector's buckets
    caller,        \* who awaits extractText: "text" or "fallback"
    calls,         \* the platform calls made so far (clipboard reads, fetches), in order
    warnings,      \* the messages passed to the log callback, in order
    readOutcome,   \* how image collection's clipboard.read() ended
    obtained,      \* the blobs image collection's candidates delivered
    surface,       \* the calls made on the drawing surface's 2D context, in order
    snapshotHtml,  \* the markup handed to renderHtmlFragmentToImage (null before)
    plan,          \* the HtmlSnapshotPlan (null before)
    snapshot,      \* how renderHtmlFragmentToImage ended: "none" before it does
    bitmaps,       \* decoded image resources created and not yet closed
    decoded,       \* decoded image resources ever created
    console,       \* console.error / console.warn: the wrappers around the originals
    restore,       \* the originals captured by the pending restoreConsole
    textRead,      \* how extractText's clipboard.read() ended
    extracted,     \* what extractText returned (null before it returns)
    result,        \* how the promise settled
    call,          \* the internal function applied on its own, with its arguments
    ret,           \* what that function returned (null before it returns)
    runs,          \* rasterizeSvgMarkup invocations running side by side
    consoleOps     \* what those invocations did with console and context, in order

vars == <<pc, env, args, payload, eventPayload, collector, caller, calls,
          warnings, readOutcome, obtained, surface, snapshotHtml, plan, snapshot,
          bitmaps, decoded, console, restore, textRead, extracted, result,
          call, ret, runs, consoleOps>>

\* The entries of calls.
ReadCall == <<"clipboard.read">>
ReadTextCall == <<"clipboard.readText">>
Fetches(sources) == [i \in 1..Len(sources) |-> <<"fetch", sources[i]>>]

Pending == [kind |-> "pending"]
Rejected(message) == [kind |-> "rejected", message |-> message]
ResolvedBlob(blob, via) == [kind |-> "blob", blob |-> blob, via |-> via]
ResolvedText(p) == [kind |-> "text", payload |-> p]

EmptyCollector == [html |-> << >>, rtf |-> << >>, plain |-> << >>]

ClipboardKinds == {"none", "read", "readText", "both"}
HasRead == env.clipboard \in {"read", "both"}
HasReadText == env.clipboard \in {"readText", "both"}

Envs ==
    {[window |-> TRUE, clipboard |-> c, domParser |-> TRUE] : c \in ClipboardKinds}
    \cup {[window |-> TRUE, clipboard |-> "both", domParser |-> FALSE],
          [window |-> FALSE, clipboard |-> "none", domParser |-> FALSE]}

SnapshotMimes == {"image/png", "image/svg+xml"}

\* onPaste's arguments; options.htmlSnapshotOptions is drawn where the
\* renderer reads it.
Args ==
    {[isImage |-> FALSE, event |-> e, enableHtmlSnapshot |-> TRUE] : e \in Events}
    \cup {[isImage |-> TRUE, event |-> e, enableHtmlSnapshot |-> s] :
            e \in Events, s \in BOOLEAN}

\* A rasterizeSvgMarkup invocation that has not passed loadBitmap yet.
IdleRun == [pc |-> "loadBitmap", original |-> Null, result |-> "none"]

Init ==
    /\ pc = "idle"
    /\ env \in Envs
    /\ args = [isImage |-> FALSE, event |-> Null, enableHtmlSnapshot |-> TRUE]
    /\ payload = EmptyPayload
    /\ eventPayload = Null
    /\ collector = EmptyCollector
    /\ caller = "text"
    /\ calls = << >>
    /\ warnings = << >>
    /\ readOutcome = "none"
    /\ obtained = << >>
    /\ surface = << >>
    /\ snapshotHtml = Null
    /\ plan = Null
    /\ snapshot = "none"
    /\ bitmaps = {}
    /\ decoded = {}
    /\ console = << >>
    /\ restore = Null
    /\ textRead = "none"
    /\ extracted = Null
    /\ result = Pending
    /\ call = << >>
    /\ ret = Null
    /\ runs = [r \in 1..MaxRuns |-> IdleRun]
    /\ consoleOps = << >>

\* ---------------------------------------------------------------- onPaste
\* onPaste up to its first await: assertBrowserEnvironment and the branch
\* on isImage.
OnPaste ==
    /\ pc = "idle"
    /\ \E a \in Args :
        /\ args' = a
        /\ IF ~env.window
           THEN /\ result' = Rejected(NoBrowserMessage)
                /\ pc' = "done"
                /\ caller' = caller
           ELSE /\ result' = result
                /\ pc' = IF a.isImage THEN "collectImagesFromEvent" ELSE "extractText"
                /\ caller' = IF a.isImage THEN "fallback" ELSE "text"
    /\ UNCHANGED <<runs, consoleOps, call, ret, snapshot, env, payload, eventPayload, collector, calls, warnings,
                   readOutcome, obtained, surface, snapshotHtml, plan, bitmaps,
                   decoded, console, restore, textRead, extracted>>

\* A variant that asks the navigator whatever the event delivered.
AlwaysNavigator(p) == TRUE

\* onPaste's test of what collectImagesFromEvent returned.
NeedsNavigator(p) == Len(p.blobs) = 0

\* collectImagesFromEvent, and onPaste's test of what it returned.
CollectImagesFromEvent ==
    /\ pc = "collectImagesFromEvent"
    /\ LET clipboardData == args.event
           first == IF clipboardData = Null THEN EmptyPayload
                    ELSE [blobs |-> collectBlobsFromDataTransfer(Value(clipboardData)),
                          html |-> Value(clipboardData).html]
       IN \E fo \in FetchChoices(first) :
          \E h \in {hydrateInlineImages(first, env.domParser, fo)} :
            /\ payload' = h.payload
            /\ eventPayload' = Some(h.payload)
            /\ warnings' = warnings \o h.warns
            /\ calls' = calls \o Fetches(h.fetched)
            /\ obtained' = IF Len(first.blobs) = 0 THEN h.payload.blobs ELSE << >>
            /\ pc' = IF NeedsNavigator(h.payload) THEN "collectImagesFromNavigator"
                     ELSE "dispatch"
    /\ UNCHANGED <<runs, consoleOps, call, ret, snapshot, env, args, collector, caller, readOutcome, surface,
                   snapshotHtml, plan, bitmaps, decoded, console, restore, textRead,
                   extracted, result>>

\* collectImagesFromNavigator: the capability tests, clipboard.read(), the
\* items' collectBlobsFromClipboardItem and the final hydrateInlineImages.
CollectImagesFromNavigator ==
    /\ pc = "collectImagesFromNavigator"
    /\ IF ~HasRead
       THEN /\ payload' = EmptyPayload
            /\ readOutcome' = "unavailable"
            /\ UNCHANGED <<calls, warnings, obtained>>
       ELSE \E outcome \in ReadOutcomes :
            \E fo \in [ItemSources(outcome.items) -> FetchOutcomes] :
            \E fo2 \in [ItemSources(outcome.items) -> FetchOutcomes] :
               \E r \in {collectFromItems(outcome, env.domParser, fo, fo2)} :
                  /\ payload' = r.payload
                  /\ readOutcome' = IF outcome.ok THEN "resolved" ELSE "rejected"
                  /\ calls' = calls \o <<ReadCall>> \o Fetches(r.fetched)
                  /\ warnings' = warnings \o r.warns
                  /\ obtained' = r.got
    /\ pc' = "dispatch"
    /\ UNCHANGED <<runs, consoleOps, call, ret, snapshot, env, args, eventPayload, collector, caller, surface,
                   snapshotHtml, plan, bitmaps, decoded, console, restore, textRead,
                   extracted, result>>

\* A variant that composes a single image even without a layout hint.
RouteMergesSingle(blobs, layoutHtml, enableHtmlSnapshot) ==
    IF Len(blobs) = 0
    THEN IF Truthy(layoutHtml) /\ enableHtmlSnapshot THEN "snapshot" ELSE "text"
    ELSE "merge"

\* onPaste's choice once image collection is over: "snapshot", "text",
\* "passthrough" or "merge".
Route(blobs, layoutHtml, enableHtmlSnapshot) ==
    IF Len(blobs) = 0
    THEN IF Truthy(layoutHtml) /\ enableHtmlSnapshot THEN "snapshot" ELSE "text"
    ELSE IF Len(blobs) = 1 /\ ~Truthy(layoutHtml) THEN "passthrough"
    ELSE "merge"

Dispatch ==
    /\ pc = "dispatch"
    /\ LET route == Route(payload.blobs, payload.html, args.enableHtmlSnapshot) IN
       /\ pc' = CASE route = "snapshot" -> "renderHtmlFragmentToImage"
                  [] route = "text" -> "extractText"
                  [] route = "passthrough" -> "done"
                  [] OTHER -> "mergeImages"
       /\ snapshotHtml' = IF route = "snapshot" THEN payload.html ELSE snapshotHtml
       /\ result' = IF route = "passthrough"
                    THEN ResolvedBlob(payload.blobs[1], "passthrough")
                    ELSE result
    /\ UNCHANGED <<runs, consoleOps, call, ret, snapshot, env, args, payload, eventPayload, collector, caller, calls,
                   warnings, readOutcome, obtained, surface, plan, bitmaps,
                   decoded, console, restore, textRead, extracted>>

\* A variant in which the fallback throws away the text it found.
SettleFallbackRejects(text, who) ==
    IF text # Null /\ who = "text" THEN [kind |-> "text", payload |-> Value(text)]
    ELSE [kind |-> "rejected",
          message |-> IF who = "text" THEN NoTextMessage ELSE NoImageMessage]

\* A variant with the two messages exchanged.
SettleSwapped(text, who) ==
    IF text # Null THEN [kind |-> "text", payload |-> Value(text)]
    ELSE [kind |-> "rejected",
          message |-> IF who = "text" THEN NoImageMessage ELSE NoTextMessage]

\* How onPaste settles with what extractText returned.
Settle(text, who) ==
    IF text # Null THEN ResolvedText(Value(text))
    ELSE Rejected(IF who = "text" THEN NoTextMessage ELSE NoImageMessage)

\* extractText up to its first await: the event's formats, the merge, the
\* capability tests.  Where extractText returns, onPaste settles.
ExtractTextFromEvent ==
    /\ pc = "extractText"
    /\ LET clipboardData == args.event
           buckets == IF clipboardData = Null THEN collector
                      ELSE AddEventText(collector, Value(clipboardData))
           merged == merge(buckets, env.domParser)
       IN /\ collector' = buckets
          /\ IF clipboardData # Null /\ merged # Null
             THEN /\ extracted' = Some(merged)
                  /\ result' = Settle(merged, caller)
                  /\ pc' = "done"
             ELSE IF env.clipboard = "none"
             THEN /\ extracted' = Some(Null)
                  /\ result' = Settle(Null, caller)
                  /\ pc' = "done"
             ELSE /\ extracted' = extracted
                  /\ result' = result
                  /\ pc' = IF HasRead THEN "extractText.read" ELSE "extractText.readText"
    /\ UNCHANGED <<runs, consoleOps, call, ret, snapshot, env, args, payload, eventPayload, caller, calls, warnings,
                   readOutcome, obtained, surface, snapshotHtml, plan, bitmaps,
                   decoded, console, restore, textRead>>

\* extractText's clipboard.read() stage.
ExtractTextRead ==
    /\ pc = "extractText.read"
    /\ calls' = Append(calls, ReadCall)
    /\ \E outcome \in ReadOutcomes :
         LET allOk == outcome.ok /\ \A i \in 1..Len(outcome.items) : ItemTextOk(outcome.items[i])
             buckets == IF allOk THEN AddItemsText(collector, outcome.items) ELSE collector
             merged == merge(buckets, env.domParser)
         IN /\ collector' = buckets
            /\ textRead' = IF outcome.ok THEN "resolved" ELSE "rejected"
            /\ warnings' = IF allOk THEN warnings ELSE warnings \o ReadFailed.warns
            /\ IF allOk /\ merged # Null
               THEN /\ extracted' = Some(merged)
                    /\ result' = Settle(merged, caller)
                    /\ pc' = "done"
               ELSE IF HasReadText
               THEN /\ extracted' = extracted
                    /\ result' = result
                    /\ pc' = "extractText.readText"
               ELSE /\ extracted' = Some(merged)
                    /\ result' = Settle(merged, caller)
                    /\ pc' = "done"
    /\ UNCHANGED <<runs, consoleOps, call, ret, snapshot, env, args, payload, eventPayload, caller,
                   readOutcome, obtained, surface, snapshotHtml, plan, bitmaps, decoded,
                   console, restore>>

\* extractText's clipboard.readText() stage and its final merge.
ExtractTextReadText ==
    /\ pc = "extractText.readText"
    /\ HasReadText
    /\ calls' = Append(calls, ReadTextCall)
    /\ \E outcome \in ReadTextOutcomes :
         LET buckets == IF outcome.ok /\ outcome.text # << >>
                        THEN add(collector, PLAIN_MIME, outcome.text)
                        ELSE collector
             merged == merge(buckets, env.domParser)
         IN /\ collector' = buckets
            /\ warnings' = IF outcome.ok THEN warnings
                           ELSE Append(warnings, "navigator.clipboard.readText failed")
            /\ extracted' = Some(merged)
            /\ result' = Settle(merged, caller)
    /\ pc' = "done"
    /\ UNCHANGED <<runs, consoleOps, call, ret, snapshot, env, args, payload, eventPayload, caller,
                   readOutcome, obtained, surface, snapshotHtml, plan, bitmaps, decoded,
                   console, restore, textRead>>

\* closeBitmaps: the resources left open once the given ones are closed.
closeBitmaps(open, closing) == open \ closing

\* What the rasterizer degrades to: the serialized vector document.
SvgFallback == ResolvedBlob(SvgBlob, "svg")

\* renderHtmlFragmentToImage up to its first await: prepareHtmlSnapshot,
\* buildForeignObjectSvg and rasterizeSvgMarkup down to loadBitmap.  A null
\* snapshot sends onPaste on to the text fallback.
RenderHtmlFragmentToImage ==
    /\ pc = "renderHtmlFragmentToImage"
    /\ \E mimeType \in SnapshotMimes, doc \in {"none", "ok", "throws"}, rect \in Rects,
          blobOk \in BOOLEAN, canvas2d \in BOOLEAN :
         \E p \in {IF doc = "throws" THEN Null
                   ELSE prepareHtmlSnapshot(Value(snapshotHtml), mimeType, doc, rect)} :
            IF doc = "throws"
            THEN /\ result' = Rejected(SerializeFailedMessage)
                 /\ snapshot' = "threw"
                 /\ pc' = "done"
                 /\ UNCHANGED <<plan, warnings>>
            ELSE IF p = Null
            THEN /\ pc' = "extractText"
                 /\ snapshot' = "null"
                 /\ UNCHANGED <<plan, warnings, result>>
            ELSE /\ plan' = Some([svg |-> buildForeignObjectSvg(Value(p)),
                                  width |-> Value(p).width, height |-> Value(p).height,
                                  mimeType |-> mimeType])
                 /\ IF mimeType = "image/svg+xml"
                    THEN IF blobOk
                         THEN /\ result' = ResolvedBlob(SvgBlob, "svg")
                              /\ snapshot' = "blob"
                              /\ pc' = "done"
                              /\ warnings' = warnings
                         ELSE /\ result' = result
                              /\ snapshot' = "null"
                              /\ pc' = "extractText"
                              /\ warnings' = Append(warnings, "Failed to serialize SVG snapshot.")
                    ELSE IF ~blobOk
                    THEN /\ result' = result
                         /\ snapshot' = "null"
                         /\ pc' = "extractText"
                         /\ warnings' = Append(warnings, "Failed to rasterize HTML snapshot.")
                    ELSE IF ~(canvas2d /\ doc = "ok")
                    THEN /\ result' = SvgFallback
                         /\ snapshot' = "blob"
                         /\ pc' = "done"
                         /\ warnings' = Append(warnings,
                               "Canvas 2D context unavailable; returning SVG snapshot.")
                    ELSE /\ result' = result
                         /\ snapshot' = snapshot
                         /\ pc' = "rasterizeSvgMarkup.loadBitmap"
                         /\ warnings' = warnings
    /\ UNCHANGED <<runs, consoleOps, call, ret, env, args, payload, eventPayload, collector, caller, calls,
                   readOutcome, obtained, surface, snapshotHtml, bitmaps, decoded,
                   console, restore, textRead, extracted>>

SnapshotBitmap == <<"snapshot", 1>>

\* rasterizeSvgMarkup from the settled loadBitmap to the await of
\* canvasToBlob: the surface, the log filter, the context, the fill, the draw.
RasterizeDraw ==
    /\ pc = "rasterizeSvgMarkup.loadBitmap"
    /\ \E dec \in {"bitmap", "image", "fail"}, canvasOk \in BOOLEAN, ctxOk \in BOOLEAN,
          drawOk \in BOOLEAN :
         LET created == IF dec = "bitmap" THEN {SnapshotBitmap} ELSE {}
             width == surfaceSize(Value(plan).width, Value(plan).height).width
             height == surfaceSize(Value(plan).width, Value(plan).height).height
         IN IF dec = "fail" \/ ~canvasOk \/ ~ctxOk \/ ~drawOk
            THEN /\ decoded' = IF dec = "fail" THEN decoded ELSE decoded \cup created
                 /\ bitmaps' = IF dec = "fail" THEN bitmaps
                               ELSE closeBitmaps(bitmaps \cup created, created)
                 /\ surface' = IF dec = "fail" \/ ~canvasOk THEN surface
                                ELSE IF ~ctxOk THEN <<FillOps(width, height)[1]>>
                                ELSE FillOps(width, height)
                 /\ UNCHANGED <<console, restore>>
                 /\ warnings' = Append(warnings, "Failed to rasterize HTML snapshot.")
                 /\ result' = SvgFallback
                 /\ snapshot' = "blob"
                 /\ pc' = "done"
            ELSE /\ decoded' = decoded \cup created
                 /\ bitmaps' = bitmaps \cup created
                 /\ surface' = FillOps(width, height) \o DrawOps(<<[x |-> 0, y |-> 0]>>)
                 /\ console' = Append(console, "filter")
                 /\ restore' = Some(console)
                 /\ warnings' = warnings
                 /\ result' = result
                 /\ snapshot' = snapshot
                 /\ pc' = "rasterizeSvgMarkup.canvasToBlob"
    /\ UNCHANGED <<runs, consoleOps, call, ret, env, args, payload, eventPayload, collector, caller, calls,
                   readOutcome, obtained, snapshotHtml, plan, textRead, extracted>>

\* rasterizeSvgMarkup from the settled canvasToBlob on: the two finally
\* blocks, and the degraded result when the export failed.
RasterizeExport ==
    /\ pc = "rasterizeSvgMarkup.canvasToBlob"
    /\ \E exportOk \in BOOLEAN :
         /\ result' = IF exportOk
                      THEN ResolvedBlob(MkBlob("snapshot", Value(plan).mimeType, 4), "snapshot")
                      ELSE SvgFallback
         /\ warnings' = IF exportOk THEN warnings
                        ELSE Append(warnings, "Failed to rasterize HTML snapshot.")
    /\ snapshot' = "blob"
    /\ console' = Value(restore)
    /\ restore' = Null
    /\ bitmaps' = closeBitmaps(bitmaps, {SnapshotBitmap})
    /\ pc' = "done"
    /\ UNCHANGED <<runs, consoleOps, call, ret, env, args, payload, eventPayload, collector, caller, calls,
                   readOutcome, obtained, surface, snapshotHtml, plan, decoded,
                   textRead, extracted>>

MergeBitmap(i) == <<"merge", i>>

\* mergeImages from its start to the await of canvasToBlob: the decodes of
\* Promise.all, then inferImageLayout, the surface, the fill and the draws.
MergeImagesDraw ==
    /\ pc = "mergeImages"
    /\ \E dec \in {"bitmap", "image"}, ok \in [1..Len(payload.blobs) -> BOOLEAN],
          canvasOk \in BOOLEAN, ctxOk \in BOOLEAN :
         LET blobs == payload.blobs
             created == IF dec = "bitmap" THEN {MergeBitmap(i) : i \in {j \in DOMAIN ok : ok[j]}}
                        ELSE {}
             layout == inferImageLayout([i \in 1..Len(blobs) |-> DecodedSize(blobs[i])],
                                        payload.html, env.domParser)
         IN /\ decoded' = decoded \cup created
            /\ IF \E i \in DOMAIN ok : ~ok[i]
               THEN /\ bitmaps' = bitmaps \cup created
                    /\ surface' = surface
                    /\ result' = Rejected(DecodeFailedMessage)
                    /\ pc' = "done"
               ELSE IF ~canvasOk \/ ~ctxOk
               THEN /\ bitmaps' = closeBitmaps(bitmaps \cup created, created)
                    /\ surface' = IF canvasOk
                                  THEN <<FillOps(layout.width, layout.height)[1]>>
                                  ELSE surface
                    /\ result' = Rejected(IF canvasOk THEN NoContextMessage
                                          ELSE NoCanvasMessage)
                    /\ pc' = "done"
               ELSE /\ bitmaps' = bitmaps \cup created
                    /\ surface' = FillOps(layout.width, layout.height)
                                  \o DrawOps(layout.positions)
                    /\ result' = result
                    /\ pc' = "mergeImages.canvasToBlob"
    /\ UNCHANGED <<runs, consoleOps, call, ret, snapshot, env, args, payload, eventPayload, collector, caller, calls,
                   warnings, readOutcome, obtained, snapshotHtml, plan, console, restore,
                   textRead, extracted>>

\* mergeImages from the settled canvasToBlob on, its finally block included.
MergeImagesExport ==
    /\ pc = "mergeImages.canvasToBlob"
    /\ \E exportOk \in BOOLEAN :
         result' = IF exportOk
                   THEN ResolvedBlob(MkBlob("composite", selectOutputMimeType(payload.blobs), 8),
                                     "composite")
                   ELSE Rejected(ExportFailedMessage)
    /\ bitmaps' = closeBitmaps(bitmaps, {MergeBitmap(i) : i \in 1..Len(payload.blobs)})
    /\ pc' = "done"
    /\ UNCHANGED <<runs, consoleOps, call, ret, snapshot, env, args, payload, eventPayload, collector, caller, calls,
                   warnings, readOutcome, obtained, surface, snapshotHtml, plan, decoded,
                   console, restore, textRead, extracted>>

Next ==
    \/ OnPaste
    \/ CollectImagesFromEvent
    \/ CollectImagesFromNavigator
    \/ Dispatch
    \/ RenderHtmlFragmentToImage
    \/ RasterizeDraw
    \/ RasterizeExport
    \/ MergeImagesDraw
    \/ MergeImagesExport
    \/ ExtractTextFromEvent
    \/ ExtractTextRead
    \/ ExtractTextReadText

Spec == Init /\ [][Next]_vars

\* ------------------------------------------- internal functions on their own
\* One internal function is applied to arguments of its domain and returns;
\* onPaste itself is not invoked.  DOMParser is there or not, as env says.
InitFunctions == Init /\ env.window /\ env.clipboard = "both"

\* The call c returns value.
Return(c, value) ==
    /\ call' = c
    /\ ret' = Some(value)
    /\ UNCHANGED <<pc, env, args, payload, eventPayload, collector, caller, calls,
                   warnings, readOutcome, obtained, surface, snapshotHtml, plan,
                   snapshot, bitmaps, decoded, console, restore, textRead,
                   extracted, result, runs, consoleOps>>

\* The decoded images of one mergeImages call, each with the size
\* getBitmapWidth / getBitmapHeight report: an ImageBitmap's is positive, an
\* HTMLImageElement without intrinsic size reports 0 x 0.
BitmapLists ==
    LET sizes == {[width |-> 0, height |-> 0], [width |-> 1, height |-> 2],
                  [width |-> 3, height |-> 1]}
    IN SeqsUpTo(sizes, MaxImages) \ {<< >>}

BuildLayoutFromRows ==
    /\ call = << >>
    /\ \E bs \in BitmapLists, rowCounts \in SeqsUpTo(0..MaxImages, MaxImages) :
         Return(<<"buildLayoutFromRows", bs, rowCounts>>,
                buildLayoutFromRows(bs, rowCounts))

\* inferImageLayout: the rows it hands to the builder, and the layout.  The
\* layout hints: none, the empty string, markup without images, a table of
\* rows 2 and 1, a one-image table followed by a break and an image,
\* paragraphs of 1 and 2, a table row holding two one-image paragraphs,
\* images between breaks (an empty segment too).
InferImageLayout ==
    LET hints ==
          {Null, Some(<< >>), Some(hText),
           Some(<<"<table>", "<tr>", "<td>", "<img>", "</td>", "<td>", "<img>", "</td>",
                  "</tr>", "<tr>", "<td>", "<img>", "</td>", "</tr>", "</table>">>),
           Some(<<"<table>", "<tr>", "<td>", "<img>", "</td>", "</tr>", "</table>",
                  "<br>", "<img>">>),
           Some(<<"<p>", "<img>", "</p>", "<p>", "<img>", "<img>", "</p>">>),
           Some(<<"<table>", "<tr>", "<td>", "<p>", "<img>", "</p>", "<p>", "<img>", "</p>",
                  "</td>", "</tr>", "</table>">>),
           Some(<<"<img>", "<br>", "<br>", "<img>">>),
           Some(<<"<img>", "<img>", "<br>", "<img>", "<br>", "<img>">>)}
    IN /\ call = << >>
       /\ \E bs \in BitmapLists, html \in hints :
            Return(<<"inferImageLayout", bs, html>>,
                   [rows |-> rowsOrSingleRow(Len(bs), html, env.domParser),
                    layout |-> inferImageLayout(bs, html, env.domParser)])

\* combinePlainTextFragments on two or more fragments, as TextCollector.merge
\* calls it: the separator it chose, and the merged string.  The fragments
\* are the strings of up to two characters: a letter, a carriage return, a
\* newline, a tab.
CombinePlainTextFragments ==
    LET strings == SeqsUpTo({"a", "CR", "LF", "TAB"}, 2)
    IN /\ call = << >>
       /\ \E k \in 2..MaxFragments : \E fragments \in [1..k -> strings] :
            Return(<<"combinePlainTextFragments", fragments>>,
                   [separator |-> plainSeparator(fragments),
                    text |-> combinePlainTextFragments(fragments)])

\* combineHtmlFragments on two or more fragments, as TextCollector.merge
\* calls it.  The fragments: the empty string, a paragraph, bare text, a
\* table of two rows, a table without rows, a row outside any table.
CombineHtmlFragments ==
    LET strings ==
          {<< >>, <<"<p>", "A", "</p>">>, <<"B">>,
           <<"<table>", "<tr>", "<td>", "1", "</td>", "</tr>",
             "<tr>", "<td>", "2", "</td>", "</tr>", "</table>">>,
           <<"<table>", "</table>">>,
           <<"<tr>", "<td>", "C", "</td>", "</tr>">>}
    IN /\ call = << >>
       /\ \E k \in 2..MaxFragments : \E fragments \in [1..k -> strings] :
            Return(<<"combineHtmlFragments", fragments>>,
                   combineHtmlFragments(fragments, env.domParser))

\* renderHtmlFragmentToImage's sizes when nothing throws: the plan of
\* prepareHtmlSnapshot (or null), the size attributes of the svg element and
\* the size of the drawing surface.  The extents getBoundingClientRect
\* reports are in half pixels: nothing, half a pixel, small ones, and those
\* around the largest dimension.
PrepareHtmlSnapshot ==
    LET extents == {0, 1, 2, 5, 8191, 8192, 8193}
    IN /\ call = << >>
       /\ \E mimeType \in SnapshotMimes, doc \in {"none", "ok"},
             rect \in extents \X extents :
            \E p \in {prepareHtmlSnapshot(hText, mimeType, doc, rect)} :
               Return(<<"prepareHtmlSnapshot", mimeType, doc, rect>>,
                      IF p = Null THEN [plan |-> Null]
                      ELSE [plan |-> p,
                            svg |-> buildForeignObjectSvg(Value(p)),
                            surface |-> surfaceSize(Value(p).width, Value(p).height)])

\* selectOutputMimeType on the blobs of one mergeImages call; a Blob's type
\* is any string, the empty one included.
\* collectImageSourcesFromHtml on markup of up to two pieces: image tags with
\* a quoted, an unquoted and no src, a comment that holds an image tag, text.
CollectImageSourcesFromHtml ==
    LET pieces == {"<img src='https://h/a.png'>", "<img src=https://h/b.png>", "<img>",
                   hCommentedImg, "hi"}
    IN /\ call = << >>
       /\ \E html \in SeqsUpTo(pieces, 2) :
            Return(<<"collectImageSourcesFromHtml", html>>,
                   collectImageSourcesFromHtml(html, env.domParser))

SelectOutputMimeType ==
    LET blobTypes ==
          {"image/png", "image/webp", "image/jpeg", "image/gif", "text/plain", ""}
    IN /\ call = << >>
       /\ \E k \in 1..MaxImages : \E types \in [1..k -> blobTypes] :
            \E blobs \in {[i \in 1..k |-> MkBlob(i, types[i], 1)]} :
               Return(<<"selectOutputMimeType", blobs>>, selectOutputMimeType(blobs))

NextFunctions ==
    \/ BuildLayoutFromRows
    \/ InferImageLayout
    \/ CombinePlainTextFragments
    \/ CombineHtmlFragments
    \/ PrepareHtmlSnapshot
    \/ SelectOutputMimeType
    \/ CollectImageSourcesFromHtml

SpecFunctions == InitFunctions /\ [][NextFunctions]_vars

\* ------------------------------------------- rasterizations side by side
\* Several rasterizeSvgMarkup invocations of one page, each past loadBitmap,
\* share console.  An invocation runs without interruption from one await to
\* the next, so another one can run only while it waits for canvasToBlob.
InitOverlap == Init /\ env.window /\ env.clipboard = "both" /\ env.domParser

\* muteCanvasNotImplementedWarnings: the originals it captures and console
\* with the filter wrapped around them.
muteCanvasNotImplementedWarnings(current) ==
    [original |-> current, console |-> Append(current, "filter")]

\* A restoreConsole that leaves console as it finds it.
restoreConsoleKeeps(original, current) == current

\* The closure muteCanvasNotImplementedWarnings returns: console is set to
\* the originals captured.
restoreConsole(original, current) == original

ConsoleOp(r, op, value) == [run |-> r, op |-> op, console |-> value]

\* rasterizeSvgMarkup from the settled loadBitmap to the await of
\* canvasToBlob, or to its end when the surface, the context or the draw
\* fails: then the finally block restores console at once.
RasterizeSvgMarkupDraw(r) ==
    /\ runs[r].pc = "loadBitmap"
    /\ \E canvasOk \in BOOLEAN, ctxOk \in BOOLEAN, drawOk \in BOOLEAN :
         IF ~canvasOk
         THEN /\ runs' = [runs EXCEPT ![r] = [@ EXCEPT !.pc = "done", !.result = "svg"]]
              /\ UNCHANGED <<console, consoleOps>>
         ELSE \E muted \in {muteCanvasNotImplementedWarnings(console)} :
              IF ~ctxOk \/ ~drawOk
              THEN \E restored \in {restoreConsole(muted.original, muted.console)} :
                   /\ console' = restored
                   /\ consoleOps' = consoleOps
                                     \o <<ConsoleOp(r, "mute", muted.console),
                                          ConsoleOp(r, "getContext", muted.console),
                                          ConsoleOp(r, "restore", restored)>>
                   /\ runs' = [runs EXCEPT ![r] = [@ EXCEPT !.pc = "done", !.result = "svg"]]
              ELSE /\ console' = muted.console
                   /\ consoleOps' = consoleOps
                                     \o <<ConsoleOp(r, "mute", muted.console),
                                          ConsoleOp(r, "getContext", muted.console)>>
                   /\ runs' = [runs EXCEPT ![r] = [@ EXCEPT !.pc = "canvasToBlob",
                                                             !.original = Some(muted.original)]]
    /\ UNCHANGED <<pc, env, args, payload, eventPayload, collector, caller, calls,
                   warnings, readOutcome, obtained, surface, snapshotHtml, plan,
                   snapshot, bitmaps, decoded, restore, textRead, extracted, result,
                   call, ret>>

\* rasterizeSvgMarkup from the settled canvasToBlob on: the finally block
\* restores console, whether the export succeeded or not.
RasterizeSvgMarkupExport(r) ==
    /\ runs[r].pc = "canvasToBlob"
    /\ \E exportOk \in BOOLEAN :
       \E restored \in {restoreConsole(Value(runs[r].original), console)} :
         /\ console' = restored
         /\ consoleOps' = Append(consoleOps, ConsoleOp(r, "restore", restored))
         /\ runs' = [runs EXCEPT ![r] = [pc |-> "done", original |-> Null,
                                         result |-> IF exportOk THEN "snapshot" ELSE "svg"]]
    /\ UNCHANGED <<pc, env, args, payload, eventPayload, collector, caller, calls,
                   warnings, readOutcome, obtained, surface, snapshotHtml, plan,
                   snapshot, bitmaps, decoded, restore, textRead, extracted, result,
                   call, ret>>

NextOverlap ==
    \/ \E r \in 1..MaxRuns : RasterizeSvgMarkupDraw(r)
    \/ \E r \in 1..MaxRuns : RasterizeSvgMarkupExport(r)

SpecOverlap == InitOverlap /\ [][NextOverlap]_vars

\* ----------------------------------------------------------------- claims
InBrowser == env.window
Settled == pc = "done"

\* What the event alone gives extractText: its merged payload, or null.
EventBuckets ==
    IF args.event = Null THEN EmptyCollector
    ELSE AddEventText(EmptyCollector, Value(args.event))
EventText == IF args.event = Null THEN Null ELSE merge(EventBuckets, env.domParser)

EventHtml == IF args.event = Null THEN Null ELSE Value(args.event).html
EventFiles == IF args.event = Null THEN {} ELSE Range(Value(args.event).files)

Occurrences(s, x) == Cardinality({i \in 1..Len(s) : s[i] = x})

CompositorMessages ==
    {DecodeFailedMessage, NoContextMessage, NoCanvasMessage, ExportFailedMessage}

\* C1: with rasterization enabled, whenever image collection of onPaste(true)
\* ends with zero images and the paste event carried text/html markup, the
\* renderer is invoked on that markup, whatever the asynchronous read did.
C1_EventMarkupIsRasterized ==
    (Settled /\ InBrowser /\ args.isImage /\ args.enableHtmlSnapshot
        /\ Len(payload.blobs) = 0 /\ Truthy(EventHtml))
    => snapshotHtml = EventHtml

\* C2: image collection calls navigator.clipboard.read() only after the
\* event-sourced collection returned zero images; when the event yields an
\* image, the payload, the drawing and the result come from the event's
\* images and markup alone, and no read is made.
EventHasImages == eventPayload # Null /\ Len(Value(eventPayload).blobs) > 0
EventLayout ==
    LET p == Value(eventPayload)
    IN inferImageLayout([i \in 1..Len(p.blobs) |-> DecodedSize(p.blobs[i])],
                        p.html, env.domParser)
C2_EventImagesPreferred ==
    /\ readOutcome # "none" => eventPayload # Null /\ Len(Value(eventPayload).blobs) = 0
    /\ EventHasImages =>
         /\ ReadCall \notin Range(calls)
         /\ payload = Value(eventPayload)
         /\ pc = "mergeImages.canvasToBlob" =>
              surface = FillOps(EventLayout.width, EventLayout.height)
                        \o DrawOps(EventLayout.positions)
         /\ result.kind = "blob" =>
              result \in {ResolvedBlob(Value(eventPayload).blobs[1], "passthrough"),
                          ResolvedBlob(MkBlob("composite",
                              selectOutputMimeType(Value(eventPayload).blobs), 8), "composite")}
C2_Witness ==
    /\ Settled /\ EventHasImages /\ HasRead
    /\ result.kind = "blob" /\ result.via = "composite"

TextFound == extracted # Null /\ extracted # Some(Null)
CarriesText == EventText # Null \/ TextFound

C5_SingleImagePassesThrough ==
    (args.isImage /\ Len(payload.blobs) = 1 /\ ~Truthy(payload.html)
        /\ pc \notin {"idle", "collectImagesFromEvent", "collectImagesFromNavigator",
                      "dispatch"})
    => /\ Settled
       /\ result = ResolvedBlob(payload.blobs[1], "passthrough")
       /\ result.blob \in EventFiles \cup Range(obtained)
       /\ decoded = {} /\ bitmaps = {} /\ surface = << >>
C5_Witness ==
    /\ Settled /\ result.kind = "blob" /\ result.via = "passthrough"
    /\ readOutcome = "resolved"

\* C6: a rejected navigator.clipboard.read() never becomes onPaste's
\* rejection: it is logged, image collection goes on as if the read had
\* yielded no items, and text extraction goes on to readText().
EmptyRead == [ok |-> TRUE, items |-> << >>]
NoFetch == [src \in {} |-> "throw"]
C7_CandidateFailureIsLocal ==
    pc = "dispatch" => \A b \in Range(obtained) : b \in Range(payload.blobs)

\* C8: one onPaste invocation calls navigator.clipboard.read() at most once
\* and navigator.clipboard.readText() at most once, on every path.
C8_ReadsAtMostOnce ==
    /\ Occurrences(calls, ReadCall) <= 1
    /\ Occurrences(calls, ReadTextCall) <= 1

\* C9: every text payload onPaste resolves with has, besides html, rtf and
\* plain, a preferred value: the merged string of its highest-ranked
\* non-null format.
C9_PreferredExposed ==
    result.kind = "text" =>
        /\ "preferred" \in DOMAIN result.payload
        /\ result.payload.preferred =
             (IF result.payload.html # Null THEN Value(result.payload.html)
              ELSE IF result.payload.rtf # Null THEN Value(result.payload.rtf)
              ELSE Value(result.payload.plain))

\* C10: every decoded image resource mergeImages or rasterizeSvgMarkup
\* created is released by the time the operation settles, on every exit
\* path, the failure to decode another image of the batch included.
C10_BitmapsReleased ==
    Settled => bitmaps = {}

\* The function name was applied and has returned.
Returned(name) == call # << >> /\ call[1] = name

Accepted(bs, rows) ==
    /\ \A r \in 1..Len(rows) : rows[r] > 0
    /\ sumCounts(rows) = Len(bs)

\* The index of the last image before row r, and the extent of row r.
RowStart(rows, r) == sumCounts(SubSeq(rows, 1, r - 1))
RowWidth(bs, rows, r) == SumWidths(bs, RowStart(rows, r) + 1, RowStart(rows, r + 1))
RowHeight(bs, rows, r) == MaxHeight(bs, RowStart(rows, r) + 1, RowStart(rows, r + 1))

\* Image k of row r is at x = the widths of the row's earlier images and at
\* y = the heights of the earlier rows.
PlacedByRows(bs, rows, positions) ==
    /\ Len(positions) = Len(bs)
    /\ \A r \in 1..Len(rows) : \A k \in 1..rows[r] :
         LET at == positions[RowStart(rows, r) + k]
         IN /\ at.x = SumWidths(bs, RowStart(rows, r) + 1, RowStart(rows, r) + k - 1)
            /\ at.y = IF r = 1 THEN 0
                      ELSE positions[RowStart(rows, r - 1) + 1].y
                           + RowHeight(bs, rows, r - 1)

\* The widest row, and the heights of all rows added up.
WidestRow(bs, rows) ==
    CHOOSE w \in {RowWidth(bs, rows, r) : r \in 1..Len(rows)} :
        \A r \in 1..Len(rows) : RowWidth(bs, rows, r) <= w
RowsHeight(bs, rows) ==
    sumCounts([r \in 1..Len(rows) |-> RowHeight(bs, rows, r)])

\* C12 as stated: for every list of images and every accepted row structure
\* the images are placed by rows, the canvas is as wide as the widest row
\* and as high as the heights of the rows added up.
C12_LayoutGeometry ==
    Returned("buildLayoutFromRows") /\ Accepted(call[2], call[3]) =>
        /\ PlacedByRows(call[2], call[3], Value(ret).positions)
        /\ Value(ret).width = WidestRow(call[2], call[3])
        /\ Value(ret).height = RowsHeight(call[2], call[3])

\* C12, amended: the same placement; the canvas width and height are those
\* of the rows, each raised to 1 when it is 0.
C12_LayoutGeometryFloored ==
    Returned("buildLayoutFromRows") /\ Accepted(call[2], call[3]) =>
        /\ PlacedByRows(call[2], call[3], Value(ret).positions)
        /\ Value(ret).width = Max(1, WidestRow(call[2], call[3]))
        /\ Value(ret).height = Max(1, RowsHeight(call[2], call[3]))

\* Three images of positive size in two rows, the first row of two.
C12_Witness ==
    /\ Returned("buildLayoutFromRows")
    /\ call[3] = <<2, 1>>
    /\ Len(call[2]) = 3
    /\ \A i \in 1..3 : call[2][i].width > 0
    /\ Value(ret).positions[2].x > 0
    /\ Value(ret).positions[3] = [x |-> 0, y |-> Value(ret).height - call[2][3].height]

\* The row structures the hint of the call yields: from its table rows, from
\* its block elements (both need DOMParser), from its line breaks.
Candidates(html) ==
    IF ~Truthy(html) \/ CountImgs(Value(html)) = 0 THEN {}
    ELSE {extractRowsFromBreaks(Value(html))}
         \cup (IF env.domParser
               THEN {extractRowsFromTables(Value(html)),
                     extractRowsFromBlockElements(Value(html))}
               ELSE {})

\* C13: the rows inferImageLayout hands to the builder are positive counts
\* that add up to the number of images: a row structure derived from the hint
\* whose counts add up to it, and otherwise the single row of all images.
C13_RowsSumToCount ==
    Returned("inferImageLayout") =>
        LET n == Len(call[2])
            rows == Value(ret).rows
        IN /\ Accepted(call[2], rows)
           /\ \/ Some(rows) \in Candidates(call[3])
              \/ /\ rows = <<n>>
                 /\ \A c \in Candidates(call[3]) : c = Null \/ sumCounts(Value(c)) # n
           /\ Value(ret).layout = buildLayoutFromRows(call[2], rows)

\* A hint whose table rows do not add up to the number of images, and no
\* other candidate does: the single row is used.
C13_Witness ==
    /\ Returned("inferImageLayout")
    /\ env.domParser
    /\ \E c \in Candidates(call[3]) : c # Null /\ sumCounts(Value(c)) # Len(call[2])
    /\ Len(call[2]) = 2
    /\ Value(ret).rows = <<2>>

\* The character c occurs in one of the fragments.
OccursIn(fragments, c) ==
    \E i \in 1..Len(fragments) : \E j \in 1..Len(fragments[i]) : fragments[i][j] = c

\* C14: the separator put between the plain-text fragments is a newline if
\* one of them contains a carriage return or a newline, and a tab if none
\* does; the merged string is the fragments joined with it, its line
\* endings normalized.
C14_SeparatorByLineBreak ==
    Returned("combinePlainTextFragments") =>
        LET fragments == call[2]
            expected == IF OccursIn(fragments, "CR") \/ OccursIn(fragments, "LF")
                        THEN "LF" ELSE "TAB"
        IN /\ Value(ret).separator = expected
           /\ Value(ret).text = NormalizeLineBreaks(Join(fragments, expected))

\* Three fragments, the second with a newline: the separator is a newline.
C14_Witness ==
    /\ Returned("combinePlainTextFragments")
    /\ Len(call[2]) = 3
    /\ call[2][2] = <<"a", "LF">>
    /\ ~OccursIn(<<call[2][1], call[2][3]>>, "LF")
    /\ Value(ret).separator = "LF"

\* A string with each of its line breaks (CR LF, a lone LF, a lone CR) as one
\* newline.
RECURSIVE EveryBreakAsNewline(_)
EveryBreakAsNewline(text) ==
    IF text = << >> THEN << >>
    ELSE IF Len(text) >= 2 /\ text[1] = "CR" /\ text[2] = "LF"
    THEN <<"LF">> \o EveryBreakAsNewline(SubSeq(text, 3, Len(text)))
    ELSE <<IF text[1] = "CR" THEN "LF" ELSE text[1]>> \o EveryBreakAsNewline(Tail(text))

\* C15: in the merge of two or more plain-text fragments no carriage return
\* remains, and every line break of a fragment (CR LF, a lone LF, a lone CR)
\* is exactly one newline of the result.
C15_LineEndingsNormalized ==
    Returned("combinePlainTextFragments") =>
        /\ \A i \in 1..Len(Value(ret).text) : Value(ret).text[i] # "CR"
        /\ Value(ret).text =
             Join([i \in 1..Len(call[2]) |-> EveryBreakAsNewline(call[2][i])],
                  Value(ret).separator)

\* C16 as stated: splitting the merge of k >= 2 plain-text fragments on the
\* separator the merge chose gives exactly k pieces.
C16_SplitRecoversCount ==
    Returned("combinePlainTextFragments") =>
        Len(SplitOn(Value(ret).text, Value(ret).separator)) = Len(call[2])

\* C16, amended: it gives exactly k pieces when no fragment contains the
\* chosen separator, and more than k when one does.
C16_SplitRecoversCountWhenAbsent ==
    Returned("combinePlainTextFragments") =>
        LET pieces == Len(SplitOn(Value(ret).text, Value(ret).separator))
        IN IF OccursIn(call[2], Value(ret).separator)
           THEN pieces > Len(call[2])
           ELSE pieces = Len(call[2])

\* Three fragments whose only line break is a lone carriage return: the
\* separator is a newline, no fragment contains one, three pieces.
C16_Witness ==
    /\ Returned("combinePlainTextFragments")
    /\ Len(call[2]) = 3
    /\ Value(ret).separator = "LF"
    /\ ~OccursIn(call[2], "LF")
    /\ OccursIn(call[2], "TAB")
    /\ Len(SplitOn(Value(ret).text, "LF")) = 3

\* C17: the merge of two or more text/html fragments is one table whose rows
\* are the fragments' rows in the order of the fragments, and every fragment
\* has at least one row in it: the rows of its table, or one single-cell row
\* (with a non-breaking space when the fragment is empty).
C17_EveryFragmentHasARow ==
    Returned("combineHtmlFragments") =>
        /\ Value(ret) = <<"<table>">> \o Flatten(AllFragmentRows(call[2])) \o <<"</table>">>
        /\ \A i \in 1..Len(call[2]) : Len(FragmentRows(call[2][i])) >= 1

\* C18: renderHtmlFragmentToImage never rejects: a failure while the markup
\* is measured and serialized makes it resolve with null, and a failure of the
\* decode, the surface, the context, the draw or the export makes it resolve
\* with the serialized SVG document.
C18_RendererNeverRejects ==
    /\ snapshot # "threw"
    /\ (snapshot = "blob" /\ "Failed to rasterize HTML snapshot." \in Range(warnings))
         => result = SvgFallback

\* The least integer that is not below v half pixels.
RoundedUp(v) == CHOOSE n \in 0..(v + 1) : 2 * n >= v /\ 2 * (n - 1) < v

\* C19: the plan's width and height are integers from 1 to 4096: the default
\* 512 x 512 when there is no document or the measured width or height is
\* not positive, and otherwise the measured extents rounded up and cut to
\* 4096; the svg element and the drawing surface have the plan's size.
C19_PlanWithinLimits ==
    (Returned("prepareHtmlSnapshot") /\ Value(ret).plan # Null) =>
        LET p == Value(Value(ret).plan)
            rect == call[4]
            measured == call[3] = "ok" /\ rect[1] > 0 /\ rect[2] > 0
        IN /\ p.width \in 1..4096
           /\ p.height \in 1..4096
           /\ p.width = (IF ~measured THEN 512
                         ELSE IF RoundedUp(rect[1]) > 4096 THEN 4096
                         ELSE RoundedUp(rect[1]))
           /\ p.height = (IF ~measured THEN 512
                          ELSE IF RoundedUp(rect[2]) > 4096 THEN 4096
                          ELSE RoundedUp(rect[2]))
           /\ Value(ret).svg.width = p.width /\ Value(ret).svg.height = p.height
           /\ Value(ret).surface = [width |-> p.width, height |-> p.height]

\* A box 4096.5 pixels wide and half a pixel high: 4096 x 1.
C19_Witness ==
    /\ Returned("prepareHtmlSnapshot")
    /\ call[3] = "ok"
    /\ call[4] = <<8193, 1>>
    /\ Value(ret).plan # Null
    /\ Value(ret).surface = [width |-> 4096, height |-> 1]

IsFetch(c) == c[1] = "fetch"

\* C21: where navigator.clipboard.read exists, every fetch for an inline
\* image comes after the call of navigator.clipboard.read(): no inline image
\* is fetched while the platform read has not yet been sought.
C21_FetchOnlyAfterRead ==
    HasRead =>
        \A i \in 1..Len(calls) :
            IsFetch(calls[i]) => \E j \in 1..(i - 1) : calls[j] = ReadCall

\* The candidate fits: it exists and its counts add up to n.
Fits(candidate, n) == candidate # Null /\ sumCounts(Value(candidate)) = n

\* C22: the rows come from the first of the hint's table rows, block elements
\* and line-break segments whose counts add up to the number of images; the
\* first two are skipped without DOMParser; a hint that is absent or holds no
\* image tag, or of which no candidate fits, gives the single row.
C22_FirstFittingCandidate ==
    Returned("inferImageLayout") =>
        LET n == Len(call[2])
            html == call[3]
            tableRows == extractRowsFromTables(Value(html))
            blockRows == extractRowsFromBlockElements(Value(html))
            breakRows == extractRowsFromBreaks(Value(html))
            expected ==
                IF ~Truthy(html) \/ CountImgs(Value(html)) = 0 THEN <<n>>
                ELSE IF env.domParser /\ Fits(tableRows, n) THEN Value(tableRows)
                ELSE IF env.domParser /\ Fits(blockRows, n) THEN Value(blockRows)
                ELSE IF Fits(breakRows, n) THEN Value(breakRows)
                ELSE <<n>>
        IN Value(ret).rows = expected

\* Three images and a table of rows 2 and 1 whose single line-break segment
\* fits as well: the table rows win.
C22_Witness ==
    /\ Returned("inferImageLayout")
    /\ env.domParser
    /\ Len(call[2]) = 3
    /\ Truthy(call[3])
    /\ Fits(extractRowsFromTables(Value(call[3])), 3)
    /\ Fits(extractRowsFromBreaks(Value(call[3])), 3)
    /\ extractRowsFromBreaks(Value(call[3])) = Some(<<3>>)
    /\ Value(ret).rows = <<2, 1>>

\* C23: whenever DOMParser produced a document, the sources returned for a
\* markup string are exactly the src attributes of the document's img[src]
\* elements: the pattern scan of the raw markup is not used.
C23_SourcesFromDocument ==
    Returned("collectImageSourcesFromHtml") /\ env.domParser =>
        Value(ret) = DomSources(call[2])

\* The identity of a candidate image: media type, byte length, modification stamp.
Triple(blob) == <<blob.type, blob.size, blob.lastModified>>

AtCompositor == pc = "mergeImages"

\* The image files among the event's file entries.
EventImageFiles ==
    IF args.event = Null THEN << >>
    ELSE LET IsImageFile(file) == StartsWithImagePrefix(file.type)
         IN SelectSeq(Value(args.event).files, IsImageFile)

\* C24 as stated: the images handed to the compositor never hold two images
\* with the same media type, byte length and modification stamp.
C24_NoTwoWithSameTriple ==
    AtCompositor =>
        \A i, j \in 1..Len(payload.blobs) :
            i < j => Triple(payload.blobs[i]) # Triple(payload.blobs[j])

\* C24, amended: when the event has image files, the images handed to the
\* compositor are those files with, of the files that share a triple, only the
\* first kept, in arrival order: image types only and no triple twice.
C24_EventFilesDeduplicated ==
    AtCompositor /\ Len(EventImageFiles) > 0 =>
        LET files == EventImageFiles
            blobs == payload.blobs
            IsFirst(k) == \A m \in 1..(k - 1) : Triple(files[m]) # Triple(files[k])
            firsts == {k \in 1..Len(files) : IsFirst(k)}
        IN /\ Len(blobs) = Cardinality(firsts)
           /\ \A i \in 1..Len(blobs) :
                \E k \in firsts :
                    /\ blobs[i] = files[k]
                    /\ Cardinality({m \in firsts : m < k}) = i - 1
           /\ \A i, j \in 1..Len(blobs) : i < j => Triple(blobs[i]) # Triple(blobs[j])

\* The event brings the same png file twice and a layout hint: the compositor
\* is handed the file once.
C24_Witness ==
    /\ AtCompositor
    /\ Len(EventImageFiles) = 2
    /\ Triple(EventImageFiles[1]) = Triple(EventImageFiles[2])
    /\ payload.blobs = <<EventImageFiles[1]>>

IsDraw(op) == op[1] = "drawImage"
IsFill(op) == op[1] = "fillRect"

\* C25: on the surface of mergeImages and of rasterizeSvgMarkup every
\* drawImage comes after a white fillRect over the whole surface, and no
\* fillRect comes after a drawImage.
C25_FillBeforeDraws ==
    \A j \in 1..Len(surface) :
        /\ IsDraw(surface[j]) =>
              \E i \in 1..(j - 1) :
                  /\ IsFill(surface[i])
                  /\ <<surface[i][2], surface[i][3]>> = <<surface[1][2], surface[1][3]>>
        /\ IsFill(surface[j]) => \A i \in 1..(j - 1) : ~IsDraw(surface[i])

\* The compositor has drawn two images on its filled surface.
C25_Witness ==
    /\ pc = "mergeImages.canvasToBlob"
    /\ Len(SelectSeq(surface, IsDraw)) = 2
    /\ Len(SelectSeq(surface, IsFill)) = 1

\* Where invocation r did op on console (0 if it did not).
OpAt(r, op) ==
    LET at == {k \in 1..Len(consoleOps) : consoleOps[k].run = r /\ consoleOps[k].op = op}
    IN IF at = {} THEN 0 ELSE CHOOSE k \in at : TRUE

\* console as it was before the k-th operation.
ConsoleBefore(k) == IF k = 1 THEN << >> ELSE consoleOps[k - 1].console

\* Between its mute and its restore no other invocation touched console.
RanAlone(r) ==
    \A k \in OpAt(r, "mute")..OpAt(r, "restore") : consoleOps[k].run = r

\* C26: an invocation of rasterizeSvgMarkup installs the log filter before it
\* asks for the 2D context, and has removed it when it is over, however it
\* ended; if no other invocation ran in between, console is then what it was
\* before the filter was installed.
C26_FilterRemovedOnEveryExit ==
    \A r \in 1..MaxRuns :
        /\ OpAt(r, "getContext") # 0 =>
              OpAt(r, "mute") # 0 /\ OpAt(r, "mute") < OpAt(r, "getContext")
        /\ runs[r].pc = "done" /\ OpAt(r, "mute") # 0 =>
              /\ OpAt(r, "restore") > OpAt(r, "mute")
              /\ RanAlone(r) =>
                    consoleOps[OpAt(r, "restore")].console = ConsoleBefore(OpAt(r, "mute"))

\* Two invocations, one after the other, each over with the SVG fallback after
\* it had installed the filter: console is without filter.
C26_Witness ==
    /\ runs[1].pc = "done" /\ runs[1].result = "svg"
    /\ runs[2].pc = "done" /\ runs[2].result = "svg"
    /\ OpAt(1, "restore") = OpAt(1, "mute") + 2
    /\ OpAt(2, "restore") = OpAt(2, "mute") + 2
    /\ OpAt(1, "restore") < OpAt(2, "mute")
    /\ Len(consoleOps) = 6
    /\ console = << >>

\* C28: when no invocation of rasterizeSvgMarkup is waiting for its export
\* any more, console.error and console.warn are the functions that were in
\* place before the first invocation started, also when invocations
\* overlapped and whatever the order they completed in.
C28_NoWrapperLeftInstalled ==
    (\A r \in 1..MaxRuns : runs[r].pc # "canvasToBlob") => console = << >>

\* C27: buildLayoutFromRows returns one placement per image, whatever the row
\* counts (too many, too few, zeros), in the order of the images: from one
\* placement to the next y never decreases, and x grows or restarts at 0.
C27_OnePlacementPerImage ==
    Returned("buildLayoutFromRows") =>
        LET positions == Value(ret).positions
        IN /\ Len(positions) = Len(call[2])
           /\ \A i \in 1..(Len(positions) - 1) :
                /\ positions[i].y <= positions[i + 1].y
                /\ positions[i + 1].x = positions[i].x + call[2][i].width
                   \/ positions[i + 1].x = 0

\* Three images; the counts 2, 0, 3 give a row of two and, cut to what is
\* left, a row of one.
C27_Witness ==
    /\ Returned("buildLayoutFromRows")
    /\ Len(call[2]) = 3
    /\ call[3] = <<2, 0, 3>>
    /\ Len(Value(ret).positions) = 3
    /\ Value(ret).positions[3].x = 0

\* The rectangles of images i and j of a layout share a point.
Overlap(bs, positions, i, j) ==
    /\ positions[i].x < positions[j].x + bs[j].width
    /\ positions[j].x < positions[i].x + bs[i].width
    /\ positions[i].y < positions[j].y + bs[j].height
    /\ positions[j].y < positions[i].y + bs[i].height

\* C29: in a layout of buildLayoutFromRows every image's rectangle
\* [x, x + w) x [y, y + h) lies inside the canvas [0, width) x [0, height),
\* and no two images of positive area overlap.
C29_InsideCanvasAndDisjoint ==
    Returned("buildLayoutFromRows") =>
        LET bs == call[2]
            layout == Value(ret)
            HasArea(i) == bs[i].width > 0 /\ bs[i].height > 0
        IN /\ \A i \in 1..Len(layout.positions) :
                /\ layout.positions[i].x >= 0
                /\ layout.positions[i].y >= 0
                /\ layout.positions[i].x + bs[i].width <= layout.width
                /\ layout.positions[i].y + bs[i].height <= layout.height
           /\ \A i, j \in 1..Len(layout.positions) :
                i < j /\ HasArea(i) /\ HasArea(j) => ~Overlap(bs, layout.positions, i, j)

\* Three images of positive area in rows of 1 and 2: the canvas is as wide
\* as the wider row and as high as both rows.
C29_Witness ==
    /\ Returned("buildLayoutFromRows")
    /\ call[2] = <<[width |-> 3, height |-> 1], [width |-> 1, height |-> 2],
                   [width |-> 3, height |-> 1]>>
    /\ call[3] = <<1, 2>>
    /\ Value(ret).width = 4
    /\ Value(ret).height = 3
    /\ Value(ret).positions[3] = [x |-> 1, y |-> 1]

\* The fragments the event's formats give extractText.
EventFragments ==
    IF args.event = Null THEN EmptyCollector
    ELSE LET data == Value(args.event)
             Bucket(format) == IF Truthy(format) THEN <<Value(format)>> ELSE << >>
         IN [html |-> Bucket(data.html), rtf |-> Bucket(data.rtf), plain |-> Bucket(data.plain)]

\* C30: extractText builds its payload from the fragments of one stage:
\* clipboard.read() and clipboard.readText() are entered with a collector
\* that holds no fragment, clipboard.read() only when the event gave none and
\* clipboard.readText() only after clipboard.read() where that exists; what
\* the event gives is returned as it is; a payload returned has a format
\* that is not null.
C30_OneStagePerPayload ==
    /\ pc \in {"extractText.read", "extractText.readText"} =>
          collector = EmptyCollector /\ EventFragments = EmptyCollector
    /\ textRead # "none" => EventFragments = EmptyCollector
    /\ pc = "extractText.readText" /\ HasRead => textRead # "none"
    /\ extracted # Null /\ EventFragments # EmptyCollector =>
          /\ collector = EventFragments
          /\ textRead = "none"
          /\ ReadTextCall \notin Range(calls)
    /\ extracted # Null /\ ReadTextCall \in Range(calls) =>
          collector.html = << >> /\ collector.rtf = << >> /\ Len(collector.plain) <= 1
    /\ extracted # Null /\ extracted # Some(Null) =>
          LET p == Value(Value(extracted))
          IN p.html # Null \/ p.rtf # Null \/ p.plain # Null

\* The event has clipboardData without text, clipboard.read() resolved
\* without a text fragment, and clipboard.readText() gave the payload.
C30_Witness ==
    /\ pc = "done"
    /\ args.event # Null
    /\ textRead = "resolved"
    /\ ReadTextCall \in Range(calls)
    /\ collector = [html |-> << >>, rtf |-> << >>, plain |-> <<plainB>>]
    /\ extracted = Some(Some([html |-> Null, rtf |-> Null, plain |-> Some(plainB)]))

====
